---- MODULE Spec2Model ----
(***************************************************************************)
(* Model of the ceneo price scraper (src/src/main.py): a producer thread   *)
(* that partitions product ids into batches, fetches each batch from the   *)
(* remote API, flattens and projects the answer into rows and puts the row *)
(* set on a bounded queue; a writer thread that drains the queue into a    *)
(* CSV file until it gets the string 'DONE'; and the main block that waits *)
(* for both in a ThreadPoolExecutor.                                       *)
(*                                                                         *)
(* Python values are represented as follows.  A dict is a function with a  *)
(* string domain.  A list is a sequence.  Values of different Python types *)
(* that can meet in one place are records with different field names:     *)
(*   None -> [none |-> TRUE]      an int k -> [int |-> k]                  *)
(*   a list l -> [list |-> l]     a str s  -> [str |-> s]                  *)
(*   an escaping exception e -> [raise |-> e]                              *)
(***************************************************************************)
EXTENDS Integers, Sequences, FiniteSets, TLC

(***************************************************************************)
(* Bounds of the model.  The identifier count, the batch size (1000 in     *)
(* producer) and the queue size (1000 in __main__) are scaled down         *)
(* together so that several batches and a full queue happen.               *)
(***************************************************************************)
MaxIds == 3
MaxBatchSize == 2
maxsize == 2

VARIABLES
    product_list,          \* iteration order of the id set read by parse_configs
    batch_size,            \* batch_size handed to batches()
    parameters,            \* cfg.get_parameters(): the configuration
    columns_mapping,       \* parameters["columns_mapping"]
    utctime_started,       \* producer local, display form of the start time
    utctime_started_short, \* producer local, compact form of the start time
    ppc,                   \* producer position
    perr,                  \* where the exception that ended the producer was raised
    gen_i,                 \* number of batches the batches() generator has yielded
    sleeps,                \* number of time.sleep calls made by batches()
    batch,                 \* the (batch_i, product_batch) pair of the current iteration
    results,               \* producer local: row set of the current iteration
    fetched,               \* per scrape_batch call: the batch, the answer, the result
    pipeline,              \* queue.Queue(maxsize): the pending items
    enqueued,              \* every item put on the queue so far, in order
    dequeued,              \* every item the writer got from the queue so far, in order
    event,                 \* threading.Event
    wpc,                   \* writer position
    outfile,               \* lines of results.csv
    mpc                    \* position of the main block

vars == <<product_list, batch_size, parameters, columns_mapping, utctime_started,
          utctime_started_short, ppc, perr, gen_i, sleeps, batch, results,
          fetched, pipeline, enqueued, dequeued, event, wpc, outfile, mpc>>

-----------------------------------------------------------------------------
(* Python value helpers *)

None == [none |-> TRUE]

IsNone(v) == "none" \in DOMAIN v

\* dict.get(key, default)
Get(d, key, default) == IF key \in DOMAIN d THEN d[key] ELSE default

\* a merge in which the left operand wins key conflicts
Merge_LeftWins(a, b) == a @@ b

\* {**a, **b}: the right operand wins key conflicts
Merge(a, b) == b @@ a

RECURSIVE Chain(_)
\* itertools.chain(*lists)
Chain(lists) == IF lists = <<>> THEN <<>> ELSE Head(lists) \o Chain(Tail(lists))

RECURSIVE Join(_)
\* "".join(chars)
Join(chars) == IF chars = <<>> THEN "" ELSE Head(chars) \o Join(Tail(chars))

SeqToSet(s) == {s[i] : i \in 1..Len(s)}

RECURSIVE Perms(_)
\* all orders in which a set can be iterated
Perms(S) == IF S = {} THEN {<<>>}
            ELSE UNION {{<<x>> \o p : p \in Perms(S \ {x})} : x \in S}

-----------------------------------------------------------------------------
(* str operations of parse_offer, computed on the characters of the string *)

UpperCase == <<"A","B","C","D","E","F","G","H","I","J","K","L","M",
               "N","O","P","Q","R","S","T","U","V","W","X","Y","Z">>

LowerCase == <<"a","b","c","d","e","f","g","h","i","j","k","l","m",
               "n","o","p","q","r","s","t","u","v","w","x","y","z">>

\* str.lower() of one character
LowerChar(c) == IF \E i \in 1..26 : UpperCase[i] = c
                THEN LowerCase[CHOOSE i \in 1..26 : UpperCase[i] = c]
                ELSE c

\* str.lower()
Lower(chars) == [i \in 1..Len(chars) |-> LowerChar(chars[i])]

\* characters urlsplit accepts in a scheme
SchemeChars == SeqToSet(UpperCase) \cup SeqToSet(LowerCase)
               \cup {"0","1","2","3","4","5","6","7","8","9","+","-","."}

\* s[from:] of a sequence, from counted from 1
Drop(s, from) == SubSeq(s, from, Len(s))

\* urlsplit: the url with a leading "scheme:" removed, when there is one
AfterScheme(url) ==
    LET colons == {i \in 1..Len(url) : url[i] = ":"}
    IN  IF colons = {} THEN url
        ELSE LET i == CHOOSE c \in colons : \A d \in colons : c <= d
             IN  IF /\ i > 1
                    /\ url[1] \in SeqToSet(UpperCase) \cup SeqToSet(LowerCase)
                    /\ \A j \in 1..(i - 1) : url[j] \in SchemeChars
                 THEN Drop(url, i + 1)
                 ELSE url

\* urlparse(url).netloc: what follows "//" up to the next "/", "?" or "#"
Netloc(url) ==
    LET rest == AfterScheme(url)
    IN  IF Len(rest) >= 2 /\ rest[1] = "/" /\ rest[2] = "/"
        THEN LET delims == {i \in 3..Len(rest) : rest[i] \in {"/", "?", "#"}}
                 stop == IF delims = {} THEN Len(rest) + 1
                         ELSE CHOOSE c \in delims : \A d \in delims : c <= d
             IN  SubSeq(rest, 3, stop - 1)
        ELSE <<>>

\* s without its "/" characters: what the alternative (/*) of the pattern removes
RECURSIVE DropSlashes(_)
DropSlashes(s) == IF s = <<>> THEN <<>>
                  ELSE IF Head(s) = "/" THEN DropSlashes(Tail(s))
                  ELSE <<Head(s)>> \o DropSlashes(Tail(s))

\* re.sub('(^www.)|(/*)', "", eshop): "www" and any one more character at
\* the start are removed, and so is every "/"
ReSub(eshop) ==
    IF Len(eshop) >= 4 /\ SubSeq(eshop, 1, 3) = <<"w", "w", "w">>
    THEN DropSlashes(Drop(eshop, 5))
    ELSE DropSlashes(eshop)

\* the CustName values the remote API answers with, as characters
CustNames == { <<"h","t","t","p",":","/","/","s","h","o","p","A",".","c","o","m">>,
               <<"M","y","S","h","o","p">>,
               <<>>,
               <<"h","t","t","p",":","/","/","W","W","W",".","E","x","a","m","p","l","e",".","c","o","m","/","x">>,
               <<"h","t","t","p",":","/","/","w","w","w","s","h","o","p",".","p","l">>,
               <<"w","w","w",".","S","h","o","p",".","p","l">>,
               <<"S","h","o","p",".","p","l","/","c","e","n","e","o">> }

\* the characters of a str
Chars(str) == CHOOSE c \in CustNames : Join(c) = str

parse_offer(offer_raw) ==
    LET name == Chars(Get(offer_raw, "CustName", ""))
        eshop == IF Lower(Netloc(name)) # <<>> THEN Lower(Netloc(name))
                 ELSE Lower(name)
    IN  Merge(offer_raw, "eshop" :> Join(ReSub(eshop)))

parse_product(product_card) ==
    LET fields == DOMAIN product_card \ {"offers"}
        prefixed == {"product_" \o k : k \in fields}
        renamed == [p \in prefixed |->
                       product_card[CHOOSE k \in fields : "product_" \o k = p]]
        common_keys == Merge(renamed,
                             "cse_url" :> ("https://ceneo.pl/"
                                           \o Get(renamed, "product_CeneoProdID", "")))
    IN  IF ~IsNone(Get(product_card, "offers", None))
        THEN LET offer_details == product_card["offers"]["offer"]
             IN  [i \in 1..Len(offer_details) |->
                     Merge(common_keys, parse_offer(offer_details[i]))]
        ELSE <<common_keys>>

-----------------------------------------------------------------------------
(* The remote API, as the program can see it *)

\* the product ids an input file can hold, as the strings parse_configs reads
IdStr == <<"1", "2", "3", "4", "5", "6", "7", "8", "9", "10">>

\* an offer as the API reports it
FullOffer == [CustName |-> "http://shopA.com", Price |-> "9.99"]

NoPriceOffer == [CustName |-> "MyShop"]

\* an offer with a field named like a field parse_product derives
UrlOffer == [CustName |-> "www.Shop.pl", Price |-> "3.50", Url |-> "http://shop.pl/p",
             cse_url |-> "http://shop.pl/ceneo"]

ExampleOffer == [CustName |-> "http://WWW.Example.com/x", Price |-> "5.00"]

WwwShopOffer == [CustName |-> "http://wwwshop.pl", Price |-> "7.00"]

PathOffer == [CustName |-> "Shop.pl/ceneo", Price |-> "8.00"]

NoNameOffer == [Price |-> "1.00"]

EmptyNameOffer == [CustName |-> "", Price |-> "2.00"]

EmptyPriceOffer == [CustName |-> "MyShop", Price |-> ""]

\* The product record the API holds for an id: one with an offer, one without
\* the offers key, one whose offers are null, one whose only offer has no
\* price, one with two offers and a second product field, one with an empty
\* list of offers, three with other merchant names, one whose offers lack a
\* merchant name or a price, and one that has no catalog id.
Catalog(id) ==
    LET n == CHOOSE i \in 1..Len(IdStr) : IdStr[i] = id
    IN  CASE n = 1 -> [CeneoProdID |-> id, offers |-> [offer |-> <<FullOffer>>]]
          [] n = 2 -> [CeneoProdID |-> id]
          [] n = 3 -> [CeneoProdID |-> id, offers |-> None]
          [] n = 4 -> [CeneoProdID |-> id, offers |-> [offer |-> <<NoPriceOffer>>]]
          [] n = 5 -> [CeneoProdID |-> id, Name |-> "Lamp",
                       offers |-> [offer |-> <<FullOffer, UrlOffer>>]]
          [] n = 6 -> [CeneoProdID |-> id, offers |-> [offer |-> <<>>]]
          [] n = 7 -> [CeneoProdID |-> id, offers |-> [offer |-> <<ExampleOffer>>]]
          [] n = 8 -> [CeneoProdID |-> id, offers |-> [offer |-> <<WwwShopOffer, PathOffer>>]]
          [] n = 9 -> [CeneoProdID |-> id,
                       offers |-> [offer |-> <<NoNameOffer, EmptyNameOffer,
                                              EmptyPriceOffer>>]]
          [] OTHER -> [CeneoProdID |-> "", offers |-> [offer |-> <<FullOffer>>]]

\* a response whose body is the JSON document json
JsonResponse(json) == [raised |-> FALSE, ok |-> TRUE, body |-> [json |-> json]]

\* the envelope of a well-formed success response carrying products
Envelope(products) ==
    [Response |-> [Status |-> "OK",
                   Result |-> [product_offers_by_ids |->
                                  [product_offers_by_id |-> products]]]]

\* the well-formed success responses to a request for batch_ids: the
\* records of the ids, or no record at all
SuccessResponses(batch_ids) ==
    { JsonResponse(Envelope([i \in 1..Len(batch_ids) |-> Catalog(batch_ids[i])])),
      JsonResponse(Envelope(<<>>)) }

\* the ways requests.get and the response can fail
FailureResponses ==
    { [raised |-> TRUE],
      [raised |-> FALSE, ok |-> FALSE, body |-> [text |-> "Bad Gateway"]],
      [raised |-> FALSE, ok |-> TRUE, body |-> [text |-> "<html>"]],
      JsonResponse([Error |-> "bad request"]),
      JsonResponse([Response |-> [Message |-> "no status"]]),
      JsonResponse([Response |-> [Status |-> "ERROR"]]),
      JsonResponse([Response |-> [Status |-> "OK"]]),
      JsonResponse([Response |-> [Status |-> "OK", Result |-> [count |-> "0"]]]),
      JsonResponse([Response |-> [Status |-> "OK",
                                  Result |-> [product_offers_by_ids |-> [count |-> "0"]]]]) }

\* what requests.get(url, params) can do for a batch
Answers(batch_ids) == SuccessResponses(batch_ids) \cup FailureResponses

\* an exception leaving a function
Raise(exception) == [raise |-> exception]

IsRaise(v) == "raise" \in DOMAIN v

\* scrape_batch, given what requests.get did (req)
scrape_batch(batch_ids, req) ==
    IF req.raised THEN None
    ELSE IF ~req.ok THEN None
    ELSE IF "json" \notin DOMAIN req.body THEN Raise("JSONDecodeError")
    ELSE LET req_json == req.body.json
         IN  IF "Response" \notin DOMAIN req_json THEN Raise("KeyError")
             ELSE IF "Status" \notin DOMAIN req_json["Response"] THEN Raise("KeyError")
             ELSE IF req_json["Response"]["Status"] # "OK" THEN None
             ELSE IF "Result" \notin DOMAIN req_json["Response"] THEN Raise("KeyError")
             ELSE IF "product_offers_by_ids" \notin DOMAIN req_json["Response"]["Result"]
                  THEN None
             ELSE IF "product_offers_by_id" \notin
                        DOMAIN req_json["Response"]["Result"]["product_offers_by_ids"]
                  THEN Raise("KeyError")
             ELSE LET items == req_json["Response"]["Result"]["product_offers_by_ids"]
                                       ["product_offers_by_id"]
                  IN  [list |-> Chain([i \in 1..Len(items) |-> parse_product(items[i])])]

-----------------------------------------------------------------------------
(* batches *)

\* enumerate(product_list)
Enumerate(list) == [i \in 1..Len(list) |-> <<i - 1, list[i]>>]

RECURSIVE GroupBy(_, _)
\* itertools.groupby(pairs, key=lambda x_: x_[0] // batch_size): the runs of
\* consecutive pairs with the same key, each with its key
GroupBy(pairs, size) ==
    IF pairs = <<>> THEN <<>>
    ELSE LET k == pairs[1][1] \div size
             n == CHOOSE m \in 1..Len(pairs) :
                      /\ \A j \in 1..m : pairs[j][1] \div size = k
                      /\ m = Len(pairs) \/ pairs[m + 1][1] \div size # k
         IN  << <<k, SubSeq(pairs, 1, n)>> >> \o GroupBy(Drop(pairs, n + 1), size)

\* prod_batch_generator: (k, [prod_id for _, prod_id in g]) for each group
prod_batch_generator(product_ids, size) ==
    LET groups == GroupBy(Enumerate(product_ids), size)
    IN  [i \in 1..Len(groups) |->
            <<[int |-> groups[i][1]],
              [j \in 1..Len(groups[i][2]) |-> groups[i][2][j][2]]>>]

\* batches() with a generator that forgets the last, partial group
batches_NoRemainder(product_ids, size) ==
    LET gen == prod_batch_generator(product_ids, size)
        full == SelectSeq(gen, LAMBDA pair : Len(pair[2]) = size)
    IN  IF full = <<>> THEN << <<None, <<>>>> >> ELSE full

\* the pairs batches() yields, in order: the first is
\* next(prod_batch_generator, (None, [])), the others are the rest of the
\* generator
batches(product_ids, size) ==
    LET gen == prod_batch_generator(product_ids, size)
    IN  IF gen = <<>> THEN << <<None, <<>>>> >> ELSE gen

-----------------------------------------------------------------------------
(* The rows the producer builds *)

\* the display and the compact form of the clock reading t (0 or 1 second
\* after the start of the run)
Display(t) == IF t = 0 THEN "2020-01-01 00:00:00" ELSE "2020-01-01 00:00:01"

Compact(t) == IF t = 0 THEN "20200101000000" ELSE "20200101000001"

\* the column mappings a configuration can hold
ColumnMappings ==
    { [product_CeneoProdID |-> "CSE_ID", cse_url |-> "CSE_URL",
       eshop |-> "ESHOP", Price |-> "PRICE"] }

\* The configurations of a run.  producer reads columns_mapping (and the
\* url and the key of the API) from the parameters; no other parameter
\* changes what it does.
Configurations == {[columns_mapping |-> m] : m \in ColumnMappings}

\* more column mappings: one with source fields that records may lack, one
\* that maps a source field to the name of a constant field
WideColumnMappings ==
    ColumnMappings \cup
    { [product_CeneoProdID |-> "CSE_ID", cse_url |-> "CSE_URL", eshop |-> "ESHOP",
       Price |-> "PRICE", Url |-> "URL", Stock |-> "STOCK", product_Name |-> "MATERIAL"],
      [product_CeneoProdID |-> "CSE_ID", eshop |-> "SOURCE", Price |-> "PRICE"] }

\* more configurations: with each of these mappings, and with or without a
\* parameter that says whether a price is required
WideConfigurations ==
    {[columns_mapping |-> m] : m \in WideColumnMappings}
    \cup {[columns_mapping |-> m, require_price |-> r] :
             m \in WideColumnMappings, r \in BOOLEAN}

\* the value of a local that was not assigned yet
NotRead == [unassigned |-> TRUE]

\* the filter without its CustName and Price conditions
Keep_CatalogIdOnly(item) == Get(item, "product_CeneoProdID", "") # ""

\* the filter without its Price condition
Keep_NoPriceCheck(item) ==
    /\ Get(item, "product_CeneoProdID", "") # ""
    /\ Get(item, "CustName", "") # ""

\* the filter of the comprehension
Keep(item) ==
    /\ Get(item, "product_CeneoProdID", "") # ""
    /\ Get(item, "CustName", "") # ""
    /\ Get(item, "Price", "") # ""

\* a projection that keeps the fields that are no mapping keys
Row_LeaksUnmapped(item, mapping, started, started_short) ==
    LET cols == DOMAIN item \cap DOMAIN mapping
        mapped == [o \in {mapping[c] : c \in cols} |->
                      item[CHOOSE c \in cols : mapping[c] = o]]
    IN  Merge(Merge(item, mapped),
              [TS |-> started, COUNTRY |-> "PL", DISTRCHAN |-> "MA", SOURCE |-> "ceneo",
               SOURCE_ID |-> "ceneo_PL_" \o started_short, FREQ |-> "d"])

\* the dict the comprehension builds for one item
Row(item, mapping, started, started_short) ==
    LET cols == DOMAIN item \cap DOMAIN mapping
        mapped == [o \in {mapping[c] : c \in cols} |->
                      item[CHOOSE c \in cols : mapping[c] = o]]
    IN  Merge(mapped,
              [TS |-> started, COUNTRY |-> "PL", DISTRCHAN |-> "MA", SOURCE |-> "ceneo",
               SOURCE_ID |-> "ceneo_PL_" \o started_short, FREQ |-> "d"])

\* the list comprehension of producer: iterating None raises TypeError
RowSet(batch_result, mapping, started, started_short) ==
    IF IsNone(batch_result) THEN Raise("TypeError")
    ELSE LET kept == SelectSeq(batch_result.list, Keep)
         IN  [list |-> [i \in 1..Len(kept) |-> Row(kept[i], mapping, started, started_short)]]

-----------------------------------------------------------------------------
(* The sink *)

colnames == <<"AVAILABILITY", "COUNTRY", "CSE_ID", "CSE_URL", "DISTRCHAN", "ESHOP",
              "FREQ", "HIGHLIGHTED_POSITION", "MATERIAL", "POSITION", "PRICE", "RATING",
              "REVIEW_COUNT", "SOURCE", "SOURCE_ID", "STOCK", "TOP", "TS", "URL">>

\* DictWriter.writeheader(): the line whose cells are the field names
HeaderLine == [c \in SeqToSet(colnames) |-> c]

\* DictWriter.writerow(row) with extrasaction='ignore': the cells of the
\* fields, '' for a field the row lacks, nothing for a key that is no field
CsvLine(row) == [c \in SeqToSet(colnames) |-> Get(row, c, "")]

\* DictWriter.writerows(chunk)
CsvLines(chunk) == [i \in 1..Len(chunk) |-> CsvLine(chunk[i])]

\* the value 'DONE' as a queue item, and a row set as a queue item
DONE == [str |-> "DONE"]

RowsItem(rows) == [list |-> rows]

-----------------------------------------------------------------------------
(* Initial state: the input file and the configuration are what parse_configs *)
(* will read; both tasks are submitted and none has run.                      *)

Init ==
    /\ product_list \in UNION {Perms({IdStr[i] : i \in 1..n}) : n \in 0..MaxIds}
    /\ batch_size \in 1..MaxBatchSize
    /\ parameters \in Configurations
    /\ columns_mapping = NotRead
    /\ utctime_started = ""
    /\ utctime_started_short = ""
    /\ ppc = "start"
    /\ perr = "none"
    /\ gen_i = 0
    /\ sleeps = 0
    /\ batch = <<None, <<>>>>
    /\ results = <<>>
    /\ fetched = <<>>
    /\ pipeline = <<>>
    /\ enqueued = <<>>
    /\ dequeued = <<>>
    /\ event = FALSE
    /\ wpc = "open"
    /\ outfile = <<>>
    /\ mpc = "waiting"

\* Initial states for the properties of single records: one product id, of
\* any kind the API knows, and any of the wider configurations.
RecordInit ==
    /\ product_list \in {<<IdStr[i]>> : i \in 1..Len(IdStr)}
    /\ batch_size = 1
    /\ parameters \in WideConfigurations
    /\ columns_mapping = NotRead
    /\ utctime_started = ""
    /\ utctime_started_short = ""
    /\ ppc = "start"
    /\ perr = "none"
    /\ gen_i = 0
    /\ sleeps = 0
    /\ batch = <<None, <<>>>>
    /\ results = <<>>
    /\ fetched = <<>>
    /\ pipeline = <<>>
    /\ enqueued = <<>>
    /\ dequeued = <<>>
    /\ event = FALSE
    /\ wpc = "open"
    /\ outfile = <<>>
    /\ mpc = "waiting"

-----------------------------------------------------------------------------
(* producer *)

\* lines 115-118: the two clock readings (the second one may fall in the next
\* second) and parse_configs, which raises when the configuration or the
\* input file cannot be read
ProducerStart ==
    /\ ppc = "start"
    /\ utctime_started' = Display(0)
    /\ \E t \in {0, 1} : utctime_started_short' = Compact(t)
    /\ \/ /\ ppc' = "next"
          /\ perr' = perr
          /\ columns_mapping' = parameters["columns_mapping"]
       \/ /\ ppc' = "raised"
          /\ perr' = "parse_configs"
          /\ UNCHANGED columns_mapping
    /\ UNCHANGED <<product_list, batch_size, parameters, gen_i, sleeps, batch,
                   results, fetched, pipeline, enqueued, dequeued, event, wpc,
                   outfile, mpc>>

\* a generator that also sleeps before its first batch
NextBatch_SleepsFirst ==
    /\ ppc = "next"
    /\ LET yields == batches(product_list, batch_size)
       IN  IF gen_i < Len(yields)
           THEN /\ batch' = yields[gen_i + 1]
                /\ gen_i' = gen_i + 1
                /\ sleeps' = sleeps + 1
                /\ ppc' = "fetch"
           ELSE /\ ppc' = "put_done"
                /\ UNCHANGED <<batch, gen_i, sleeps>>
    /\ UNCHANGED <<product_list, batch_size, parameters, columns_mapping, utctime_started,
                   utctime_started_short, perr, results, fetched, pipeline, enqueued,
                   dequeued, event, wpc, outfile, mpc>>

\* line 120: the for statement resumes batches(): the first batch comes at
\* once, a later one after time.sleep, and the loop ends when there is none
NextBatch ==
    /\ ppc = "next"
    /\ LET yields == batches(product_list, batch_size)
       IN  IF gen_i < Len(yields)
           THEN /\ batch' = yields[gen_i + 1]
                /\ gen_i' = gen_i + 1
                /\ sleeps' = IF gen_i = 0 THEN sleeps ELSE sleeps + 1
                /\ ppc' = "fetch"
           ELSE /\ ppc' = "put_done"
                /\ UNCHANGED <<batch, gen_i, sleeps>>
    /\ UNCHANGED <<product_list, batch_size, parameters, columns_mapping, utctime_started,
                   utctime_started_short, perr, results, fetched, pipeline, enqueued,
                   dequeued, event, wpc, outfile, mpc>>

\* lines 121-147: scrape_batch and the list comprehension; an exception of
\* either ends the producer task
Fetch ==
    /\ ppc = "fetch"
    /\ \E req \in Answers(batch[2]) :
          LET batch_result == scrape_batch(batch[2], req)
              rows == IF IsRaise(batch_result) THEN batch_result
                      ELSE RowSet(batch_result, columns_mapping, utctime_started,
                                  utctime_started_short)
          IN  /\ fetched' = Append(fetched, [batch_i |-> batch[1],
                                             product_batch |-> batch[2],
                                             req |-> req,
                                             batch_result |-> batch_result])
              /\ IF IsRaise(rows)
                 THEN /\ ppc' = "raised"
                      /\ perr' = IF IsRaise(batch_result) THEN "scrape_batch"
                                 ELSE "results"
                      /\ UNCHANGED results
                 ELSE /\ ppc' = "put"
                      /\ results' = rows.list
                      /\ UNCHANGED perr
    /\ UNCHANGED <<product_list, batch_size, parameters, columns_mapping, utctime_started,
                   utctime_started_short, gen_i, sleeps, batch, pipeline, enqueued,
                   dequeued, event, wpc, outfile, mpc>>

\* a put that does not wait for room
Put_NoBlock(item) ==
    /\ pipeline' = Append(pipeline, item)
    /\ enqueued' = Append(enqueued, item)

\* Queue.put(item): blocks while the queue holds maxsize items
Put(item) ==
    /\ Len(pipeline) < maxsize
    /\ pipeline' = Append(pipeline, item)
    /\ enqueued' = Append(enqueued, item)

\* line 149: task_queue.put(results)
PutResults ==
    /\ ppc = "put"
    /\ Put(RowsItem(results))
    /\ ppc' = "next"
    /\ UNCHANGED <<product_list, batch_size, parameters, columns_mapping, utctime_started,
                   utctime_started_short, perr, gen_i, sleeps, batch, results, fetched,
                   dequeued, event, wpc, outfile, mpc>>

\* line 152: task_queue.put("DONE"), after which producer returns
PutDone ==
    /\ ppc = "put_done"
    /\ Put(DONE)
    /\ ppc' = "done"
    /\ UNCHANGED <<product_list, batch_size, parameters, columns_mapping, utctime_started,
                   utctime_started_short, perr, gen_i, sleeps, batch, results, fetched,
                   dequeued, event, wpc, outfile, mpc>>

producer == ProducerStart \/ NextBatch \/ Fetch \/ PutResults \/ PutDone

-----------------------------------------------------------------------------
(* writer *)

\* a writer that opens the file and writes no header
WriterOpen_NoHeader ==
    /\ wpc = "open"
    /\ outfile' = <<>>
    /\ wpc' = "loop"
    /\ UNCHANGED <<product_list, batch_size, parameters, columns_mapping, utctime_started,
                   utctime_started_short, ppc, perr, gen_i, sleeps, batch, results,
                   fetched, pipeline, enqueued, dequeued, event, mpc>>

\* lines 156-158: open(filepath, 'w+') and writeheader()
WriterOpen ==
    /\ wpc = "open"
    /\ outfile' = <<HeaderLine>>
    /\ wpc' = "loop"
    /\ UNCHANGED <<product_list, batch_size, parameters, columns_mapping, utctime_started,
                   utctime_started_short, ppc, perr, gen_i, sleeps, batch, results,
                   fetched, pipeline, enqueued, dequeued, event, mpc>>

\* a writer that also takes an empty row set for the end of the stream
WriterGet_StopsOnEmpty ==
    /\ wpc = "loop"
    /\ ~event
    /\ pipeline # <<>>
    /\ LET chunk == Head(pipeline)
       IN  /\ pipeline' = Tail(pipeline)
           /\ dequeued' = Append(dequeued, chunk)
           /\ IF chunk = DONE \/ chunk = RowsItem(<<>>)
              THEN /\ event' = TRUE
                   /\ wpc' = "done"
                   /\ UNCHANGED outfile
              ELSE /\ outfile' = outfile \o CsvLines(chunk.list)
                   /\ UNCHANGED <<event, wpc>>
    /\ UNCHANGED <<product_list, batch_size, parameters, columns_mapping, utctime_started,
                   utctime_started_short, ppc, perr, gen_i, sleeps, batch, results,
                   fetched, enqueued, mpc>>

\* lines 159-165: one turn of the loop; Queue.get() blocks while the queue
\* is empty; after 'DONE' the event is set, the loop ends and writer returns
WriterGet ==
    /\ wpc = "loop"
    /\ ~event
    /\ pipeline # <<>>
    /\ LET chunk == Head(pipeline)
       IN  /\ pipeline' = Tail(pipeline)
           /\ dequeued' = Append(dequeued, chunk)
           /\ IF chunk = DONE
              THEN /\ event' = TRUE
                   /\ wpc' = "done"
                   /\ UNCHANGED outfile
              ELSE /\ outfile' = outfile \o CsvLines(chunk.list)
                   /\ UNCHANGED <<event, wpc>>
    /\ UNCHANGED <<product_list, batch_size, parameters, columns_mapping, utctime_started,
                   utctime_started_short, ppc, perr, gen_i, sleeps, batch, results,
                   fetched, enqueued, mpc>>

\* lines 156-164 when the sink fails: open() or writeheader() raises, or
\* writerows() raises on a row set the writer got, after writing some of
\* its lines; the exception ends the writer task with the event not set
WriterRaise ==
    /\ \/ /\ wpc = "open"
          /\ UNCHANGED <<pipeline, dequeued, outfile>>
       \/ /\ wpc = "loop"
          /\ ~event
          /\ pipeline # <<>>
          /\ Head(pipeline) # DONE
          /\ pipeline' = Tail(pipeline)
          /\ dequeued' = Append(dequeued, Head(pipeline))
          /\ \E n \in 0..Len(Head(pipeline).list) :
                outfile' = outfile \o SubSeq(CsvLines(Head(pipeline).list), 1, n)
    /\ wpc' = "raised"
    /\ UNCHANGED <<product_list, batch_size, parameters, columns_mapping, utctime_started,
                   utctime_started_short, ppc, perr, gen_i, sleeps, batch, results,
                   fetched, enqueued, event, mpc>>

writer == WriterOpen \/ WriterGet

-----------------------------------------------------------------------------
(* __main__ *)

\* lines 210-212: leaving the with block waits for both submitted tasks; an
\* exception that ended a task stays in its future, which nobody reads
ExecutorExit ==
    /\ mpc = "waiting"
    /\ ppc \in {"done", "raised"}
    /\ wpc \in {"done", "raised"}
    /\ mpc' = "exited"
    /\ UNCHANGED <<product_list, batch_size, parameters, columns_mapping, utctime_started,
                   utctime_started_short, ppc, perr, gen_i, sleeps, batch, results,
                   fetched, pipeline, enqueued, dequeued, event, wpc, outfile>>

Next == ProducerStart \/ NextBatch \/ Fetch \/ PutResults \/ PutDone
        \/ WriterOpen \/ WriterGet \/ ExecutorExit

Spec == Init /\ [][Next]_vars

\* the runs over single records
RecordSpec == RecordInit /\ [][Next]_vars

\* the runs in which the sink may fail
SinkFaultNext == Next \/ WriterRaise

SinkFaultSpec == Init /\ [][SinkFaultNext]_vars

FairSinkFaultSpec ==
    SinkFaultSpec /\ WF_vars(producer) /\ WF_vars(writer) /\ WF_vars(ExecutorExit)

\* The threads of the pool and the main thread are scheduled by the operating
\* system: a thread that can take a step eventually takes one.
FairSpec == Spec /\ WF_vars(producer) /\ WF_vars(writer) /\ WF_vars(ExecutorExit)

-----------------------------------------------------------------------------
(* Vocabulary of the properties *)

\* the number of items of the sequence s that equal x
RECURSIVE Count(_, _)
Count(s, x) == IF s = <<>> THEN 0
               ELSE (IF Head(s) = x THEN 1 ELSE 0) + Count(Tail(s), x)

\* the row sets among the queue items s, in order
RowSetsOf(s) == SelectSeq(s, LAMBDA item : item # DONE)

\* the lines writerows produces for the row sets among the queue items s
LinesOf(s) ==
    LET sets == RowSetsOf(s)
    IN  Chain([i \in 1..Len(sets) |-> CsvLines(sets[i].list)])

\* ceil(a / b)
Ceil(a, b) == (a + b - 1) \div b

\* the producer task has ended, by returning or by an exception
ProducerEnded == ppc \in {"done", "raised"}

\* the normal completion state of a run
Completed ==
    /\ ppc = "done"
    /\ wpc = "done"
    /\ enqueued # <<>> /\ enqueued[Len(enqueued)] = DONE
    /\ dequeued = enqueued

\* the batches the generator has yielded so far, in order
Yielded == SubSeq(batches(product_list, batch_size), 1, gen_i)

\* the for loop of producer has ended: batches() is exhausted
Exhausted == ppc \in {"put_done", "done"}

\* the products of the i-th scrape_batch call that came back in a well-formed
\* answer without offers (key absent or null) and with a catalog id
BareProducts(i) ==
    IF "list" \in DOMAIN fetched[i].batch_result
    THEN LET items == fetched[i].req.body.json["Response"]["Result"]
                          ["product_offers_by_ids"]["product_offers_by_id"]
         IN  {p \in SeqToSet(items) :
                 /\ IsNone(Get(p, "offers", None))
                 /\ Get(p, "CeneoProdID", "") # ""}
    ELSE {}

\* the positions of the rows of a row set, or of the lines of the file, that
\* carry the catalog id
RowsFor(rows, id) == {j \in 1..Len(rows) : Get(rows[j], "CSE_ID", "") = id}

-----------------------------------------------------------------------------
(* Fetch failure isolation *)

\* C1: when scrape_batch returned None for a batch, the producer raises
\* nothing, the batch contributes a row set of zero rows, and the run goes on
\* (as stated by the claim; the code raises TypeError instead).
C1_FailedBatchNeverAborts ==
    \A i \in 1..Len(fetched) :
        IsNone(fetched[i].batch_result) =>
            /\ ~(i = Len(fetched) /\ ppc = "raised")
            /\ (i = Len(fetched) /\ ppc = "put") => results = <<>>
            /\ i <= Len(RowSetsOf(enqueued)) => RowSetsOf(enqueued)[i].list = <<>>

\* C2: under fair scheduling every run whose configuration was read and whose
\* fetches all returned a list or None eventually reaches normal completion
\* (as stated by the claim).
C2_RunCompletes == <>(Completed \/ perr \in {"parse_configs", "scrape_batch"})

\* C3: once an exception has ended the producer task, the consumer is
\* eventually stopped and the executor block eventually exits (as stated by
\* the claim).
C3_ProducerExceptionStopsConsumer == (ppc = "raised") ~> (wpc = "done" /\ mpc = "exited")

-----------------------------------------------------------------------------
(* The sentinel *)

\* C4: in every run whose configuration was read the producer enqueues 'DONE'
\* exactly once: never twice, only after batches() is exhausted and every
\* yielded batch's row set was enqueued, with nothing enqueued after it, and a
\* producer that has ended has enqueued it (as stated by the claim).
C4_SentinelExactlyOnce ==
    /\ Count(enqueued, DONE) <= 1
    /\ Count(enqueued, DONE) = 1 =>
          /\ gen_i = Len(batches(product_list, batch_size))
          /\ Len(RowSetsOf(enqueued)) = gen_i
          /\ enqueued[Len(enqueued)] = DONE
    /\ (ProducerEnded /\ perr # "parse_configs") => Count(enqueued, DONE) = 1

\* C5: the writer has terminated iff it has dequeued 'DONE'; it dequeues it at
\* most once, as the last item it dequeues, and the file holds the header and
\* the lines of the row sets dequeued before it, nothing else.
C5_WriterStopsOnSentinel ==
    /\ (wpc = "done") <=> (Count(dequeued, DONE) = 1)
    /\ (wpc = "done") <=> event
    /\ Count(dequeued, DONE) <= 1
    /\ Count(dequeued, DONE) = 1 => dequeued[Len(dequeued)] = DONE
    /\ wpc # "open" => outfile = <<HeaderLine>> \o LinesOf(dequeued)

\* C5 witness: the writer has written two row sets, one of them with a row,
\* then dequeued the sentinel and terminated.
C5_Witness ==
    /\ wpc = "done"
    /\ Len(dequeued) >= 3
    /\ Len(outfile) >= 2

-----------------------------------------------------------------------------
(* Order and backpressure *)

\* C6: exactly one row set is enqueued per yielded batch (a producer that is
\* between two iterations or has ended has enqueued as many row sets as
\* batches were yielded), a batch is fetched only after the previous batch's
\* row set was enqueued, batches come in ascending index, and a writer that
\* has terminated has written the row sets the producer enqueued, in order
\* (as stated by the claim).
C6_OneRowSetPerBatchInOrder ==
    /\ (ppc \in {"next", "put_done", "done"} \/ (ppc = "raised" /\ perr = "results"))
          => Len(RowSetsOf(enqueued)) = gen_i
    /\ ppc \in {"fetch", "put"} => Len(RowSetsOf(enqueued)) = gen_i - 1
    /\ \A i \in 1..Len(fetched) :
          fetched[i].batch_i \in {None, [int |-> i - 1]}
    /\ wpc = "done" =>
          /\ dequeued = enqueued
          /\ outfile = <<HeaderLine>> \o LinesOf(enqueued)

\* C7: the queue never holds more than maxsize items; while it holds maxsize
\* items neither put of the producer is enabled; and every item put is either
\* already dequeued or still pending, in order: none is dropped or overwritten.
C7_Backpressure ==
    /\ Len(pipeline) <= maxsize
    /\ Len(pipeline) = maxsize => ~ENABLED PutResults /\ ~ENABLED PutDone
    /\ enqueued = dequeued \o pipeline

\* C7 witness: the producer has enqueued maxsize row sets, the writer has
\* dequeued nothing, and the producer waits with the next row set.
C7_Witness ==
    /\ Len(pipeline) = maxsize
    /\ DONE \notin SeqToSet(pipeline)
    /\ dequeued = <<>>
    /\ ppc = "put"
    /\ ~ENABLED PutResults

-----------------------------------------------------------------------------
(* batches *)

\* the yielded batches are pairwise disjoint
YieldedDisjoint ==
    \A i, j \in 1..Len(Yielded) :
        i # j => SeqToSet(Yielded[i][2]) \cap SeqToSet(Yielded[j][2]) = {}

\* the identifiers of the yielded batches
YieldedIds == UNION {SeqToSet(Yielded[i][2]) : i \in 1..Len(Yielded)}

\* C8 as stated: the yielded batches are pairwise disjoint, and once batches()
\* is exhausted their union is the id set and their number is
\* ceil(|S| / batch_size), the empty id set included.
C8_PartitionAsStated ==
    /\ YieldedDisjoint
    /\ YieldedIds \subseteq SeqToSet(product_list)
    /\ Exhausted =>
          /\ YieldedIds = SeqToSet(product_list)
          /\ gen_i = Ceil(Len(product_list), batch_size)

\* C8 amended: the yielded batches are pairwise disjoint, and once batches()
\* is exhausted their union is the id set and their number is
\* ceil(|S| / batch_size) for a non-empty id set and 1 for the empty one,
\* whose only batch is (None, []).
C8_Partition ==
    /\ YieldedDisjoint
    /\ YieldedIds \subseteq SeqToSet(product_list)
    /\ Exhausted =>
          /\ YieldedIds = SeqToSet(product_list)
          /\ gen_i = IF product_list = <<>> THEN 1
                     ELSE Ceil(Len(product_list), batch_size)
          /\ product_list = <<>> => Yielded = << <<None, <<>>>> >>

\* C8 witness: batches() is exhausted after a full batch and a partial one.
C8_Witness ==
    /\ Exhausted
    /\ gen_i = 2
    /\ Len(Yielded[1][2]) = 2
    /\ Len(Yielded[2][2]) = 1

-----------------------------------------------------------------------------
(* Products without offers *)

\* C9 as stated: a product that came back without offers and with a catalog
\* id has exactly one row in the row set enqueued for its batch, and exactly
\* one line in the file once the writer has terminated.
C9_BareProductOneRow ==
    \A i \in 1..Len(fetched) : \A p \in BareProducts(i) :
        /\ i <= Len(RowSetsOf(enqueued)) =>
              Cardinality(RowsFor(RowSetsOf(enqueued)[i].list, p["CeneoProdID"])) = 1
        /\ wpc = "done" => Cardinality(RowsFor(outfile, p["CeneoProdID"])) = 1

\* C9 amended: a product that came back without offers and with a catalog id
\* is flattened into exactly one record of scrape_batch's result, which has
\* no offer field; the producer drops that record, as it has no CustName: the
\* row set enqueued for the batch and the file hold no row for the product.
C9_BareProductDropped ==
    \A i \in 1..Len(fetched) : \A p \in BareProducts(i) :
        LET flat == fetched[i].batch_result.list
            mine == {j \in 1..Len(flat) :
                        Get(flat[j], "product_CeneoProdID", "") = p["CeneoProdID"]}
        IN  /\ Cardinality(mine) = 1
            /\ \A j \in mine : DOMAIN flat[j] = {"product_CeneoProdID", "cse_url"}
            /\ i <= Len(RowSetsOf(enqueued)) =>
                  RowsFor(RowSetsOf(enqueued)[i].list, p["CeneoProdID"]) = {}
            /\ RowsFor(outfile, p["CeneoProdID"]) = {}

\* C9 witness: a product without offers was fetched and the row set of its
\* batch was enqueued, dequeued and written.
C9_Witness ==
    \E i \in 1..Len(fetched) :
        /\ BareProducts(i) # {}
        /\ i <= Len(RowSetsOf(dequeued))

\* C10: scrape_batch never raises, returns None for every answer that is no
\* well-formed success response, and a list only for a well-formed success
\* response (as stated by the claim).
C10_ScrapeBatchNeverRaises ==
    \A i \in 1..Len(fetched) :
        LET call == fetched[i]
        IN  /\ ~IsRaise(call.batch_result)
            /\ call.req \notin SuccessResponses(call.product_batch)
                  => IsNone(call.batch_result)
            /\ "list" \in DOMAIN call.batch_result
                  => call.req \in SuccessResponses(call.product_batch)

-----------------------------------------------------------------------------
(* Properties of single records and rows *)

\* the names of the constant fields of a row
ConstantFields == {"TS", "COUNTRY", "DISTRCHAN", "SOURCE", "SOURCE_ID", "FREQ"}

\* the output names of a column mapping
ValueSet(mapping) == {mapping[c] : c \in DOMAIN mapping}

\* the flat records of the i-th fetch that the filter keeps, in order
KeptOf(i) == SelectSeq(fetched[i].batch_result.list, Keep)

\* the rows the producer enqueued for the i-th fetch
RowsOf(i) == RowSetsOf(enqueued)[i].list

\* C11 as stated: the field set of every enqueued row is exactly the value
\* set of the column mapping united with the constant fields.
C11_SchemaClosureAsStated ==
    \A i \in 1..Len(RowSetsOf(enqueued)) : \A j \in 1..Len(RowsOf(i)) :
        DOMAIN RowsOf(i)[j] = ValueSet(columns_mapping) \cup ConstantFields

\* C11: every record that passes the filter gives one row, whose field set
\* is exactly the output names of the mapping keys that the record carries,
\* united with the constant fields; a mapping key the record lacks gives no
\* field, and a field that is no mapping key gives none either.
C11_SchemaClosure ==
    \A i \in 1..Len(RowSetsOf(enqueued)) :
        /\ Len(RowsOf(i)) = Len(KeptOf(i))
        /\ \A j \in 1..Len(RowsOf(i)) :
              DOMAIN RowsOf(i)[j] =
                 {columns_mapping[c] : c \in DOMAIN KeptOf(i)[j] \cap DOMAIN columns_mapping}
                 \cup ConstantFields

\* C11 witness: a row was enqueued for a record that lacks a key of the
\* mapping and carries a field that is no key of the mapping.
C11_Witness ==
    \E i \in 1..Len(RowSetsOf(enqueued)) : \E j \in 1..Len(RowsOf(i)) :
        /\ DOMAIN columns_mapping \ DOMAIN KeptOf(i)[j] # {}
        /\ DOMAIN KeptOf(i)[j] \ DOMAIN columns_mapping # {}

\* the product records of the response of the i-th scrape_batch call
ProductsOf(i) ==
    fetched[i].req.body.json["Response"]["Result"]
        ["product_offers_by_ids"]["product_offers_by_id"]

\* the offers of a product record: those under its offers key, none when
\* the key is absent or null
OffersOf(product_card) ==
    IF IsNone(Get(product_card, "offers", None)) THEN <<>>
    ELSE product_card["offers"]["offer"]

\* one per (product, offer) pair, or one for a product without offers
PairsOf(product_card) ==
    IF OffersOf(product_card) = <<>> THEN 1 ELSE Len(OffersOf(product_card))

\* the number of pairs of the first k product records
RECURSIVE PairsBefore(_, _)
PairsBefore(products, k) ==
    IF k = 0 THEN 0 ELSE PairsBefore(products, k - 1) + PairsOf(products[k])

\* C12: a product record with zero offers gives exactly one flat record,
\* with no offer field; one with N >= 1 offers gives exactly N flat records,
\* one per offer in order, each with every product field under its product_
\* name and with the fields of its offer (as stated by the claim; for an
\* offers key that holds an empty list the code gives no flat record).
C12_ParseProductTotal ==
    \A i \in 1..Len(fetched) :
        "list" \in DOMAIN fetched[i].batch_result =>
            LET products == ProductsOf(i)
                flat == fetched[i].batch_result.list
            IN  /\ Len(flat) = PairsBefore(products, Len(products))
                /\ \A k \in 1..Len(products) :
                      LET product_card == products[k]
                          own == DOMAIN product_card \ {"offers"}
                          offers == OffersOf(product_card)
                          base == PairsBefore(products, k - 1)
                      IN  \A n \in 1..PairsOf(product_card) :
                              /\ \A f \in own :
                                    /\ ("product_" \o f) \in DOMAIN flat[base + n]
                                    /\ flat[base + n]["product_" \o f] = product_card[f]
                              /\ IF offers = <<>>
                                 THEN DOMAIN flat[base + n]
                                         = {"product_" \o f : f \in own} \cup {"cse_url"}
                                 ELSE \A f \in DOMAIN offers[n] :
                                         /\ f \in DOMAIN flat[base + n]
                                         /\ flat[base + n][f] = offers[n][f]

-----------------------------------------------------------------------------
(* The header of the output file *)

\* the writer wrote the header: it is the first line and no other line of
\* the file is a header
HeaderWritten ==
    /\ outfile # <<>>
    /\ outfile[1] = HeaderLine
    /\ Count(outfile, HeaderLine) = 1

\* C13: the writer writes the header whatever the producer does, and before
\* it gets anything from the queue; from then on the header is the first
\* line and the only header of the file, the lines after it are the rows
\* of the row sets the writer got, the file is not opened again, and a
\* written line is never changed or removed.
C13_HeaderOnceBeforeRows ==
    /\ [](wpc = "open" => /\ ENABLED WriterOpen
                          /\ dequeued = <<>>
                          /\ outfile = <<>>)
    /\ [](wpc # "open" => /\ HeaderWritten
                          /\ Tail(outfile) = LinesOf(dequeued))
    /\ [][/\ wpc # "open" => wpc' # "open"
          /\ Len(outfile') >= Len(outfile)
          /\ SubSeq(outfile', 1, Len(outfile)) = outfile]_vars

\* C13 witness: the producer task ended by an exception before any batch
\* was put, and the file holds the header; or rows follow the header.
C13_Witness ==
    \/ ppc = "raised" /\ enqueued = <<>> /\ outfile = <<HeaderLine>>
    \/ HeaderWritten /\ Len(outfile) > 1 /\ wpc = "done"

-----------------------------------------------------------------------------
(* The delays between batches *)

\* C14: no delay comes before the first batch and exactly one before each
\* later batch: after k >= 1 batches were yielded there were k - 1 delays,
\* and when batches() is exhausted after n >= 1 batches there were n - 1.
C14_DelaysBetweenBatches ==
    /\ sleeps = (IF gen_i = 0 THEN 0 ELSE gen_i - 1)
    /\ Exhausted => /\ gen_i = Len(batches(product_list, batch_size))
                    /\ gen_i >= 1
                    /\ sleeps = gen_i - 1

\* C14 witness: batches() is exhausted after three batches and two delays.
C14_Witness ==
    /\ Exhausted
    /\ gen_i = 3
    /\ sleeps = 2

-----------------------------------------------------------------------------
(* The empty identifier set *)

\* C15: for the empty id set, once the configuration was read, batches()
\* yields the one batch (None, []), and whatever its fetch returns the producer raises nothing, enqueues one
\* row set of zero rows and then 'DONE', and the file holds only the header
\* when the run is over (as stated by the claim; when scrape_batch returns
\* None or raises, the producer task ends by an exception instead).
C15_EmptySetTolerated ==
    (product_list = <<>> /\ perr # "parse_configs") =>
        /\ gen_i >= 1 => Yielded = << <<None, <<>>>> >>
        /\ ppc # "raised"
        /\ ProducerEnded => enqueued = <<RowsItem(<<>>), DONE>>
        /\ wpc = "done" => outfile = <<HeaderLine>>

-----------------------------------------------------------------------------
(* The filter *)

\* the filter predicates of the claim, the price predicate applying when
\* price_required
Passes(item, price_required) ==
    /\ "product_CeneoProdID" \in DOMAIN item /\ item["product_CeneoProdID"] # ""
    /\ "CustName" \in DOMAIN item /\ item["CustName"] # ""
    /\ price_required => ("Price" \in DOMAIN item /\ item["Price"] # "")

\* the rows enqueued for the i-th fetch are one per flat record that passes,
\* in order: each has the catalog id of its record
OneRowPerPassing(i, price_required) ==
    LET passing == SelectSeq(fetched[i].batch_result.list,
                             LAMBDA item : Passes(item, price_required))
    IN  /\ Len(RowsOf(i)) = Len(passing)
        /\ \A j \in 1..Len(passing) :
              Get(RowsOf(i)[j], "CSE_ID", "") = passing[j]["product_CeneoProdID"]

\* whether the configuration requires a price: it does unless it says not
PriceRequired == Get(parameters, "require_price", TRUE)

\* C16 as stated: a flat record is dropped iff it fails the catalog id, the
\* merchant or, when the configuration requires a price, the price
\* predicate; every other flat record gives exactly one row.
C16_FilterAsStated ==
    \A i \in 1..Len(RowSetsOf(enqueued)) : OneRowPerPassing(i, PriceRequired)

\* C16: a flat record is dropped iff it fails the catalog id, the merchant
\* or the price predicate, whatever the configuration says; every other flat
\* record gives exactly one row.
C16_Filter ==
    \A i \in 1..Len(RowSetsOf(enqueued)) : OneRowPerPassing(i, TRUE)

\* C16 witness: under a configuration that does not require a price, a row
\* set was enqueued for a fetch with a record that fails the price predicate
\* only.
C16_Witness ==
    /\ ~PriceRequired
    /\ \E i \in 1..Len(RowSetsOf(enqueued)) :
          \E j \in 1..Len(fetched[i].batch_result.list) :
              LET item == fetched[i].batch_result.list[j]
              IN  Passes(item, FALSE) /\ ~Passes(item, TRUE)

-----------------------------------------------------------------------------
(* The run context *)

\* every row enqueued so far
EnqueuedRows == SeqToSet(Chain([i \in 1..Len(RowSetsOf(enqueued)) |-> RowsOf(i)]))

\* C17: every enqueued row carries the same TS and the same SOURCE_ID, and
\* the compact timestamp in SOURCE_ID is the one clock reading that TS
\* displays (as stated by the claim; the code reads the clock twice).
C17_SingleStartTimestamp ==
    /\ \A r1, r2 \in EnqueuedRows : r1["TS"] = r2["TS"] /\ r1["SOURCE_ID"] = r2["SOURCE_ID"]
    /\ \A row \in EnqueuedRows :
          \E t \in {0, 1} : /\ row["TS"] = Display(t)
                            /\ row["SOURCE_ID"] = "ceneo_PL_" \o Compact(t)

-----------------------------------------------------------------------------
(* Field precedence *)

\* the number of flat records parse_product gives for a product record
FlatCount(product_card) ==
    IF IsNone(Get(product_card, "offers", None)) THEN 1
    ELSE Len(product_card["offers"]["offer"])

\* the number of flat records of the first k product records
RECURSIVE FlatBefore(_, _)
FlatBefore(products, k) ==
    IF k = 0 THEN 0 ELSE FlatBefore(products, k - 1) + FlatCount(products[k])

\* the constant fields of the rows of the run
RunConstants ==
    [TS |-> utctime_started, COUNTRY |-> "PL", DISTRCHAN |-> "MA", SOURCE |-> "ceneo",
     SOURCE_ID |-> "ceneo_PL_" \o utctime_started_short, FREQ |-> "d"]

\* C18: in the flat record of an offer every field of the offer has the
\* value of the offer, also when a product-scoped field (a product_ field or
\* cse_url) has the same key; in a row every constant field has its constant
\* value, also when the mapping gives a source field the same output name.
C18_FieldPrecedence ==
    /\ \A i \in 1..Len(fetched) :
          "list" \in DOMAIN fetched[i].batch_result =>
              \A k \in 1..Len(ProductsOf(i)) :
                  LET offers == OffersOf(ProductsOf(i)[k])
                      base == FlatBefore(ProductsOf(i), k - 1)
                      flat == fetched[i].batch_result.list
                  IN  \A n \in 1..Len(offers) : \A f \in DOMAIN offers[n] :
                          flat[base + n][f] = offers[n][f]
    /\ \A row \in EnqueuedRows : \A c \in DOMAIN RunConstants :
          row[c] = RunConstants[c]

\* C18 witness: a row was enqueued for an offer that has a field named like
\* the derived product field cse_url, under a mapping that gives a source
\* field the output name of the constant SOURCE.
C18_Witness ==
    /\ enqueued # <<>>
    /\ "SOURCE" \in ValueSet(columns_mapping)
    /\ \E i \in 1..Len(RowSetsOf(enqueued)) :
          /\ RowsOf(i) # <<>>
          /\ \E k \in 1..Len(ProductsOf(i)) :
                \E n \in 1..Len(OffersOf(ProductsOf(i)[k])) :
                    "cse_url" \in DOMAIN OffersOf(ProductsOf(i)[k])[n]

-----------------------------------------------------------------------------
(* A failing sink *)

\* C19: when the writer task has ended by an exception, the producer task
\* ends all the same, however many batches remain (as stated by the claim;
\* the producer waits for ever in put() once the queue is full).
C19_ProducerEndsWithoutWriter == (wpc = "raised") ~> ProducerEnded

-----------------------------------------------------------------------------
(* The merchant id *)

\* chars without a leading literal "www.", nothing else altered
StripWww(chars) ==
    IF Len(chars) >= 4 /\ SubSeq(chars, 1, 4) = <<"w", "w", "w", ".">>
    THEN Drop(chars, 5)
    ELSE chars

\* the merchant id the claim gives for a raw CustName
StatedEshop(name) ==
    LET host == Lower(Netloc(Chars(name)))
    IN  Join(StripWww(IF host # <<>> THEN host ELSE Lower(Chars(name))))

\* C20: the eshop of the flat record of every offer is the lower-cased host
\* of its CustName, or the lower-cased CustName when it has no host, without
\* a leading literal "www." and otherwise unaltered (as stated by the claim;
\* the code removes "www" and any one character, and every "/").
C20_EshopOnlyWwwStripped ==
    \A i \in 1..Len(fetched) :
        "list" \in DOMAIN fetched[i].batch_result =>
            \A k \in 1..Len(ProductsOf(i)) :
                LET offers == OffersOf(ProductsOf(i)[k])
                    base == FlatBefore(ProductsOf(i), k - 1)
                    flat == fetched[i].batch_result.list
                IN  \A n \in 1..Len(offers) :
                        flat[base + n]["eshop"]
                           = StatedEshop(Get(offers[n], "CustName", ""))

====
